---- MODULE Spec2Model ----
(***************************************************************************)
(* Model of influxdb/src/client/client_v2.rs: the InfluxDB v2 HTTP client. *)
(*                                                                         *)
(* A ClientV2 is three Arc'ed values (url, headers, parameters) built once *)
(* by `new` and shared by every clone.  `ping` and `query` are async fns;  *)
(* each call is a frame that advances from one await point to the next,    *)
(* and frames of different calls interleave freely.  Strings are TLA+      *)
(* strings; `contains`, `format!` and map insertion are computed on them.  *)
(***************************************************************************)
EXTENDS Integers, Sequences, FiniteSets, TLC

\* ------------------------------------------------------------- bounds
\* Total number of ping/query calls started in one behaviour.
MaxCalls == 3
\* Number of live handles (the original client plus its clones).
MaxHandles == 2
\* Call frames that may be in flight at the same time.
Slots == {"a", "b"}

\* ------------------------------------------------------------- inputs
Urls == {"http://localhost:8086", "localhost"}
Tokens == {"YOURAUTHTOKEN", "bad\ntoken"}
Orgs == {"org", "acme"}
Buckets == {"bucket"}

None == <<>>
Some(x) == <<x>>

\* The query objects handed to `query` (the Query collaborator): the variant,
\* the outcome of q.build() and, for a write, the declared precision.
ReadTexts == {"SELECT * FROM w", "SHOW DATABASES", "select 1", "DROP SERIES"}
ReadQueries ==
  {[variant |-> "Read", render |-> [ok |-> TRUE, text |-> t], precision |-> ""] : t \in ReadTexts}
    \cup {[variant |-> "Read", render |-> [ok |-> FALSE, text |-> ""], precision |-> ""]}
WriteQueries ==
  {[variant |-> "Write", render |-> [ok |-> TRUE, text |-> "w t=82 1"], precision |-> "ms"],
   [variant |-> "Write", render |-> [ok |-> TRUE, text |-> "w s=\"SELECT\" 2"], precision |-> "ns"],
   [variant |-> "Write", render |-> [ok |-> FALSE, text |-> ""], precision |-> "ms"]}
Queries == ReadQueries \cup WriteQueries
NoQuery == [variant |-> "None", render |-> [ok |-> FALSE, text |-> ""], precision |-> ""]

\* What the server may answer to a query: a status and the outcome of
\* reading the body as text.
Statuses == {200, 401, 403}
BodyTexts == {"{\"results\":[]}", "{\"error\":\"bad\"}", "no error"}
Bodies == {[ok |-> TRUE, text |-> t] : t \in BodyTexts} \cup {[ok |-> FALSE, text |-> ""]}
Responses == [status : Statuses, body : Bodies]

\* ------------------------------------------------------------ strings
\* str::contains
Contains(s, sub) ==
  \E i \in 1..(Len(s) - Len(sub) + 1) : SubSeq(s, i, i + Len(sub) - 1) = sub

StartsWith(s, p) == Len(s) >= Len(p) /\ SubSeq(s, 1, Len(p)) = p

\* HashMap::new / HeaderMap::new and insert
EmptyMap == [k \in {} |-> ""]
Insert(m, k, v) == [x \in (DOMAIN m) \cup {k} |-> IF x = k THEN v ELSE m[x]]

\* --------------------------------------------------------- ClientV2::new
\* Bytes HeaderValue::from_str rejects: control characters other than tab.
ControlChars == {"\n", "\r", "\f"}

HeaderValueFromStr(s) ==
  IF \A i \in 1..Len(s) : SubSeq(s, i, i) \notin ControlChars THEN Some(s) ELSE None

NoConfig == [url |-> "", headers |-> EmptyMap, parameters |-> EmptyMap]

\* The value `new` returns, or a panic when the unwrap of line 58 fails.
new(url, tok, org, bucket) ==
  LET parameters == Insert(Insert(EmptyMap, "org", org), "bucket", bucket)
      value == HeaderValueFromStr("Token " \o tok)
  IN IF value = None
       THEN [panicked |-> TRUE, config |-> NoConfig]
       ELSE [panicked |-> FALSE,
             config |-> [url |-> url,
                         headers |-> Insert(EmptyMap, "Authorization", value[1]),
                         parameters |-> parameters]]

get_header_by_name(self, name) == self.headers[name]
token(self) == get_header_by_name(self, "Authorization")
database_url(self) == self.url

\* ------------------------------------------------------------- state
VARIABLES
  args,      \* the arguments given to ClientV2::new
  client,    \* "unconstructed", "ready" or "panicked"
  shared,    \* the Arc'ed url, headers and parameters all handles point to
  handles,   \* number of live handles
  calls,     \* the frame of each call slot
  started    \* calls started so far

vars == <<args, client, shared, handles, calls, started>>

IdleFrame ==
  [op |-> "idle", pc |-> "idle", q |-> NoQuery, request |-> None,
   sent |-> 0, response |-> None, result |-> None]

Err(kind, msg) == [kind |-> kind, value |-> msg]
Ok(value) == [kind |-> "Ok", value |-> value]

Init ==
  /\ args \in [url : Urls, token : Tokens, org : Orgs, bucket : Buckets]
  /\ client = "unconstructed"
  /\ shared = NoConfig
  /\ handles = 0
  /\ calls = [c \in Slots |-> IdleFrame]
  /\ started = 0

New ==
  /\ client = "unconstructed"
  /\ LET r == new(args.url, args.token, args.org, args.bucket)
     IN IF r.panicked
          THEN /\ client' = "panicked"
               /\ UNCHANGED <<shared, handles>>
          ELSE /\ client' = "ready"
               /\ shared' = r.config
               /\ handles' = 1
  /\ UNCHANGED <<args, calls, started>>

\* #[derive(Clone)]: the new handle holds the same three Arcs.
Clone ==
  /\ client = "ready"
  /\ handles < MaxHandles
  /\ handles' = handles + 1
  /\ UNCHANGED <<args, client, shared, calls, started>>

\* ------------------------------------------------------ ClientV2::query
\* Whether reqwest can turn the formatted address into a request URL:
\* it needs an http(s) scheme followed by a host.
UrlParses(u) == StartsWith(u, "http://") \/ StartsWith(u, "https://")

\* Mutant: the rendering failure of a read query goes unnoticed.
QueryBuildReadUnchecked(q) ==
  IF q.render.ok \/ q.variant = "Read"
    THEN [ok |-> TRUE, text |-> q.render.text]
    ELSE [ok |-> FALSE, text |-> ""]

\* q.build().map_err(InvalidQueryError)
QueryBuild(q) ==
  IF q.render.ok
    THEN [ok |-> TRUE, text |-> q.render.text]
    ELSE [ok |-> FALSE, text |-> ""]

\* Mutant: only SELECT is looked for.
ReadMethodSelectOnly(read_query) ==
  IF Contains(read_query, "SELECT") THEN "GET" ELSE "POST"

\* The method chosen for a read query.
ReadMethod(read_query) ==
  IF Contains(read_query, "SELECT") \/ Contains(read_query, "SHOW")
    THEN "GET"
    ELSE "POST"

\* QueryTypes::Read(_) => ...
ReadBranch(self, read_query) ==
  [method |-> ReadMethod(read_query),
   url |-> self.url \o "/query",
   headers |-> self.headers,
   query |-> self.parameters,
   body |-> None]

\* Mutant: precision is inserted into the map behind the Arc.
WriteBranchParametersInPlace(parameters, precision) ==
  [shared |-> Insert(parameters, "precision", precision),
   local |-> Insert(parameters, "precision", precision)]

\* let mut parameters = self.parameters.as_ref().clone();
\* parameters.insert("precision", ...): the map behind the Arc afterwards,
\* and the call's own map.
WriteBranchParameters(parameters, precision) ==
  [shared |-> parameters,
   local |-> Insert(parameters, "precision", precision)]

get_precision(write_query) == write_query.precision

\* Mutant: the write request goes out with the shared parameters only.
WriteBranchNoPrecision(self, write_query, text) ==
  [method |-> "POST",
   url |-> self.url \o "/api/v2/write",
   headers |-> self.headers,
   query |-> self.parameters,
   body |-> Some(text)]

\* QueryTypes::Write(write_query) => ...
WriteBranch(self, write_query, text) ==
  [method |-> "POST",
   url |-> self.url \o "/api/v2/write",
   headers |-> self.headers,
   query |-> WriteBranchParameters(self.parameters, get_precision(write_query)).local,
   body |-> Some(text)]

\* RequestBuilder::build(): the request, or None when the URL is rejected.
RequestBuilderBuild(rb) == IF UrlParses(rb.url) THEN Some(rb) ELSE None

\* The frame once `query` has run up to client.execute(request).
QueryPrepared(self, q) ==
  LET query == QueryBuild(q)
      rb == IF q.variant = "Read"
              THEN ReadBranch(self, query.text)
              ELSE WriteBranch(self, q, query.text)
      request == RequestBuilderBuild(rb)
  IN IF ~query.ok
       THEN [IdleFrame EXCEPT !.op = "query", !.q = q, !.pc = "done",
                              !.result = Some(Err("InvalidQueryError", ""))]
       ELSE IF request = None
         THEN [IdleFrame EXCEPT !.op = "query", !.q = q, !.pc = "done",
                                !.result = Some(Err("UrlConstructionError", ""))]
         ELSE [IdleFrame EXCEPT !.op = "query", !.q = q, !.pc = "execute",
                                !.request = request]

\* The map behind self.parameters once `query` has built its request.
SelfParametersAfter(self, q) ==
  IF QueryBuild(q).ok /\ q.variant = "Write"
    THEN WriteBranchParameters(self.parameters, get_precision(q)).shared
    ELSE self.parameters

\* A handle h starts query(q): everything up to the first await.
QueryStart(c, h, q) ==
  /\ client = "ready"
  /\ h \in 1..handles
  /\ started < MaxCalls
  /\ calls[c].op = "idle"
  /\ calls' = [calls EXCEPT ![c] = QueryPrepared(shared, q)]
  /\ shared' = [shared EXCEPT !.parameters = SelfParametersAfter(shared, q)]
  /\ started' = started + 1
  /\ UNCHANGED <<args, client, handles>>

\* client.execute(request): the request goes out on the wire.
QueryExecute(c) ==
  /\ calls[c].op = "query"
  /\ calls[c].pc = "execute"
  /\ calls' = [calls EXCEPT ![c].pc = "awaiting", ![c].sent = @ + 1]
  /\ UNCHANGED <<args, client, shared, handles, started>>

\* Mutant: a failed send is tried again.
AfterSendFailureRetry(f) == [f EXCEPT !.pc = "execute"]

\* .await.map_err(ConnectionError)?
AfterSendFailure(f) ==
  [f EXCEPT !.pc = "done", !.result = Some(Err("ConnectionError", ""))]

QueryConnectionError(c) ==
  /\ calls[c].op = "query"
  /\ calls[c].pc = "awaiting"
  /\ calls' = [calls EXCEPT ![c] = AfterSendFailure(calls[c])]
  /\ UNCHANGED <<args, client, shared, handles, started>>

\* Mutant: the two status errors are exchanged.
StatusCheckSwapped(status) ==
  CASE status = 401 -> Some([kind |-> "AuthenticationError", value |-> ""])
    [] status = 403 -> Some([kind |-> "AuthorizationError", value |-> ""])
    [] OTHER -> None

\* match res.status() { ... }
StatusCheck(status) ==
  CASE status = 401 -> Some(Err("AuthorizationError", ""))
    [] status = 403 -> Some(Err("AuthenticationError", ""))
    [] OTHER -> None

\* The response arrives and its status is matched.
QueryResponse(c, res) ==
  /\ calls[c].op = "query"
  /\ calls[c].pc = "awaiting"
  /\ LET early == StatusCheck(res.status)
     IN calls' = [calls EXCEPT ![c].response = Some(res),
                               ![c].pc = IF early = None THEN "text" ELSE "done",
                               ![c].result = early]
  /\ UNCHANGED <<args, client, shared, handles, started>>

\* Mutant: the database error does not carry the body.
DatabaseErrorNoBody(s) == [kind |-> "DatabaseError", value |-> "influxdb error"]

\* The text looked for in a response body.
ErrorMarker == "\"error\""

\* Error::DatabaseError { error: format!(...) }

DatabaseError(s) == Err("DatabaseError", "influxdb error: \"" \o s \o "\"")

\* Mutant: the body is handed back in its Debug form, quotes included.
TextOutcomeDebug(body) ==
  IF ~body.ok
    THEN Err("DeserializationError", "response could not be converted to UTF-8")
    ELSE IF Contains(body.text, ErrorMarker)
      THEN DatabaseError(body.text)
      ELSE Ok("\"" \o body.text \o "\"")

\* res.text().await ... Ok(s)
TextOutcome(body) ==
  IF ~body.ok
    THEN Err("DeserializationError", "response could not be converted to UTF-8")
    ELSE IF Contains(body.text, ErrorMarker)
      THEN DatabaseError(body.text)
      ELSE Ok(body.text)

QueryText(c) ==
  /\ calls[c].op = "query"
  /\ calls[c].pc = "text"
  /\ calls' = [calls EXCEPT ![c].pc = "done",
                            ![c].result = Some(TextOutcome(calls[c].response[1].body))]
  /\ UNCHANGED <<args, client, shared, handles, started>>

\* ------------------------------------------------------- ClientV2::ping
PingHeaders ==
  {Insert(Insert(EmptyMap, "X-Influxdb-Build", "OSS"), "X-Influxdb-Version", "2.0"),
   Insert(EmptyMap, "X-Influxdb-Version", "2.0"),
   EmptyMap}

PingRequest(self) ==
  [method |-> "GET", url |-> self.url \o "/ping", headers |-> EmptyMap,
   query |-> EmptyMap, body |-> None]

\* client.get(url).send(): a URL reqwest rejects fails the send at once.
PingStart(c, h) ==
  /\ client = "ready"
  /\ h \in 1..handles
  /\ started < MaxCalls
  /\ calls[c].op = "idle"
  /\ LET request == RequestBuilderBuild(PingRequest(shared))
     IN calls' = [calls EXCEPT ![c] =
          IF request = None
            THEN [IdleFrame EXCEPT !.op = "ping", !.pc = "done",
                                   !.result = Some(Err("ProtocolError", ""))]
            ELSE [IdleFrame EXCEPT !.op = "ping", !.pc = "awaiting",
                                   !.request = request, !.sent = 1]]
  /\ started' = started + 1
  /\ UNCHANGED <<args, client, shared, handles>>

PingProtocolError(c) ==
  /\ calls[c].op = "ping"
  /\ calls[c].pc = "awaiting"
  /\ calls' = [calls EXCEPT ![c].pc = "done",
                            ![c].result = Some(Err("ProtocolError", ""))]
  /\ UNCHANGED <<args, client, shared, handles, started>>

\* headers["X-Influxdb-Build"], headers["X-Influxdb-Version"]: indexing a
\* HeaderMap by a name it does not hold panics.
PingOutcome(headers) ==
  IF "X-Influxdb-Build" \in DOMAIN headers /\ "X-Influxdb-Version" \in DOMAIN headers
    THEN [kind |-> "Ok", build |-> headers["X-Influxdb-Build"],
          version |-> headers["X-Influxdb-Version"]]
    ELSE [kind |-> "Panic"]

PingResponse(c, headers) ==
  /\ calls[c].op = "ping"
  /\ calls[c].pc = "awaiting"
  /\ calls' = [calls EXCEPT ![c].pc = "done",
                            ![c].response = Some([status |-> 204, headers |-> headers]),
                            ![c].result = Some(PingOutcome(headers))]
  /\ UNCHANGED <<args, client, shared, handles, started>>

\* The caller takes the outcome of a finished call; its frame is gone.
Return(c) ==
  /\ calls[c].pc = "done"
  /\ calls' = [calls EXCEPT ![c] = IdleFrame]
  /\ UNCHANGED <<args, client, shared, handles, started>>

Next ==
  \/ New
  \/ Clone
  \/ \E c \in Slots, h \in 1..MaxHandles, q \in Queries : QueryStart(c, h, q)
  \/ \E c \in Slots : QueryExecute(c)
  \/ \E c \in Slots : QueryConnectionError(c)
  \/ \E c \in Slots, res \in Responses : QueryResponse(c, res)
  \/ \E c \in Slots : QueryText(c)
  \/ \E c \in Slots, h \in 1..MaxHandles : PingStart(c, h)
  \/ \E c \in Slots : PingProtocolError(c)
  \/ \E c \in Slots, headers \in PingHeaders : PingResponse(c, headers)
  \/ \E c \in Slots : Return(c)

Spec == Init /\ [][Next]_vars
\* ------------------------------------------------------------- claims
QueryFrames == {calls[c] : c \in {s \in Slots : calls[s].op = "query"}}
PingFrames == {calls[c] : c \in {s \in Slots : calls[s].op = "ping"}}

\* The configuration the constructor arguments call for.
ExpectedHeaders == "Authorization" :> ("Token " \o args.token)
ExpectedParameters == ("org" :> args.org) @@ ("bucket" :> args.bucket)

\* C1: once the client is constructed, whatever calls run and however they
\* interleave, the shared parameters are exactly org and bucket with the
\* constructor's values, the URL and the Authorization header are the
\* constructed ones, and a precision parameter appears only in the request
\* of a write call.
C1_SharedConfigUnchanged ==
  client = "ready" =>
    /\ DOMAIN shared.parameters = {"org", "bucket"}
    /\ shared.parameters["org"] = args.org
    /\ shared.parameters["bucket"] = args.bucket
    /\ database_url(shared) = args.url
    /\ shared.headers = ExpectedHeaders
    /\ \A c \in Slots :
         (calls[c].request # None /\ "precision" \in DOMAIN calls[c].request[1].query)
           => (calls[c].op = "query" /\ calls[c].q.variant = "Write")

\* A write and a read are in flight together on a cloned client.
C1_Witness ==
  /\ client = "ready"
  /\ handles = 2
  /\ \E c, d \in Slots :
       /\ c # d
       /\ calls[c].pc = "awaiting" /\ calls[c].q.variant = "Write"
       /\ "precision" \in DOMAIN calls[c].request[1].query
       /\ calls[d].pc = "awaiting" /\ calls[d].q.variant = "Read"

\* C2: a read query that rendered builds a request to {url}/query with the
\* Authorization header, exactly org and bucket as parameters and no body;
\* the method is GET when the text contains SELECT or SHOW and POST
\* otherwise.  (When the URL is rejected no request exists at all.)
C2_ReadRequest ==
  \A f \in QueryFrames :
    (f.q.variant = "Read" /\ f.q.render.ok) =>
      IF UrlParses(args.url)
        THEN f.request =
               Some([method |-> IF \/ Contains(f.q.render.text, "SELECT")
                                   \/ Contains(f.q.render.text, "SHOW")
                                  THEN "GET" ELSE "POST",
                     url |-> args.url \o "/query",
                     headers |-> ExpectedHeaders,
                     query |-> ExpectedParameters,
                     body |-> None])
        ELSE f.request = None

\* A GET read and a POST read have both been built.
C2_Witness ==
  \E c, d \in Slots :
    /\ calls[c].q.variant = "Read" /\ calls[c].request # None
    /\ calls[c].request[1].method = "GET"
    /\ calls[c].q.render.text = "SHOW DATABASES"
    /\ calls[d].q.variant = "Read" /\ calls[d].request # None
    /\ calls[d].request[1].method = "POST"
    /\ calls[d].q.render.text = "select 1"

\* C3: a write query that rendered builds a POST to {url}/api/v2/write whose
\* body is the rendered text, with the Authorization header and exactly the
\* parameters org, bucket and precision, the precision being the one that
\* same query declares, whatever other call is running.
C3_WriteRequest ==
  \A f \in QueryFrames :
    (f.q.variant = "Write" /\ f.q.render.ok) =>
      IF UrlParses(args.url)
        THEN f.request =
               Some([method |-> "POST",
                     url |-> args.url \o "/api/v2/write",
                     headers |-> ExpectedHeaders,
                     query |-> ExpectedParameters @@ ("precision" :> f.q.precision),
                     body |-> Some(f.q.render.text)])
        ELSE f.request = None

\* Two writes with different precisions are in flight together.
C3_Witness ==
  \E c, d \in Slots :
    /\ calls[c].q.variant = "Write" /\ calls[c].pc = "awaiting"
    /\ calls[c].request[1].query["precision"] = "ms"
    /\ calls[d].q.variant = "Write" /\ calls[d].pc = "awaiting"
    /\ calls[d].request[1].query["precision"] = "ns"

\* C4: a query call that ended with the invalid-query error or the
\* URL-construction error has sent no request, and a query whose rendering
\* fails ends with the invalid-query error, read or write, with no request
\* built.
C4_ErrorsBeforeNetwork ==
  \A f \in QueryFrames :
    /\ (f.result # None /\ f.result[1].kind \in {"InvalidQueryError", "UrlConstructionError"})
         => (f.sent = 0 /\ f.request = None /\ f.response = None)
    /\ ~f.q.render.ok
         => (f.result = Some(Err("InvalidQueryError", "")) /\ f.sent = 0 /\ f.request = None)

\* A read that failed to render and a write that failed request assembly.
C4_Witness ==
  \E c, d \in Slots :
    /\ calls[c].op = "query" /\ calls[c].q.variant = "Read" /\ ~calls[c].q.render.ok
    /\ calls[c].result = Some(Err("InvalidQueryError", ""))
    /\ calls[d].op = "query" /\ calls[d].q.variant = "Write"
    /\ calls[d].result = Some(Err("UrlConstructionError", ""))

\* C5: a response with status 401 ends the query with the authorization
\* error and one with status 403 with the authentication error, whatever
\* the body holds.
C5_StatusErrors ==
  \A f \in QueryFrames :
    f.response # None =>
      /\ f.response[1].status = 401
           => (f.pc = "done" /\ f.result = Some(Err("AuthorizationError", "")))
      /\ f.response[1].status = 403
           => (f.pc = "done" /\ f.result = Some(Err("AuthenticationError", "")))

\* A 401 whose body carries the error marker, and a 403 beside it.
C5_Witness ==
  \E c, d \in Slots :
    /\ calls[c].op = "query" /\ calls[c].response # None
    /\ calls[c].response[1].status = 401
    /\ calls[c].response[1].body = [ok |-> TRUE, text |-> "{\"error\":\"bad\"}"]
    /\ calls[c].result[1].kind = "AuthorizationError"
    /\ calls[d].op = "query" /\ calls[d].response # None
    /\ calls[d].response[1].status = 403
    /\ calls[d].result[1].kind = "AuthenticationError"

\* C6 as stated: a 200 response whose body text contains the word error
\* ends the query with a database error containing the body text.
C6_BareWordIsDatabaseError ==
  \A f \in QueryFrames :
    (/\ f.pc = "done"
     /\ f.response # None
     /\ f.response[1].status = 200
     /\ f.response[1].body.ok
     /\ Contains(f.response[1].body.text, "error"))
      => /\ f.result # None
         /\ f.result[1].kind = "DatabaseError"
         /\ Contains(f.result[1].value, f.response[1].body.text)

\* C6, amended: a 200 response whose body text contains the word error
\* enclosed in double quotes (seven characters) ends the query with a
\* database error whose message contains the body text verbatim.
C6_DatabaseError ==
  \A f \in QueryFrames :
    (/\ f.pc = "done"
     /\ f.response # None
     /\ f.response[1].status = 200
     /\ f.response[1].body.ok
     /\ Contains(f.response[1].body.text, "\"error\""))
      => /\ f.result # None
         /\ f.result[1].kind = "DatabaseError"
         /\ Contains(f.result[1].value, f.response[1].body.text)

C6_Witness ==
  \E c \in Slots :
    /\ calls[c].op = "query" /\ calls[c].pc = "done"
    /\ calls[c].response = Some([status |-> 200,
                                 body |-> [ok |-> TRUE, text |-> "{\"error\":\"bad\"}"]])
    /\ calls[c].result[1].kind = "DatabaseError"

\* C7: a 200 response whose body text does not contain the word error ends
\* the query, read or write, with that body text as the success value.
C7_BodyReturned ==
  \A f \in QueryFrames :
    (/\ f.pc = "done"
     /\ f.response # None
     /\ f.response[1].status = 200
     /\ f.response[1].body.ok
     /\ ~Contains(f.response[1].body.text, "error"))
      => f.result = Some([kind |-> "Ok", value |-> f.response[1].body.text])

\* A read and a write have both returned their bodies.
C7_Witness ==
  \E c, d \in Slots :
    /\ calls[c].q.variant = "Read" /\ calls[c].pc = "done"
    /\ calls[c].response # None /\ calls[c].response[1].status = 200
    /\ calls[c].result = Some([kind |-> "Ok", value |-> "{\"results\":[]}"])
    /\ calls[d].q.variant = "Write" /\ calls[d].pc = "done"
    /\ calls[d].response # None /\ calls[d].response[1].status = 200
    /\ calls[d].result = Some([kind |-> "Ok", value |-> "{\"results\":[]}"])

QueryErrorKinds ==
  {"InvalidQueryError", "UrlConstructionError", "ConnectionError",
   "AuthorizationError", "AuthenticationError", "DeserializationError",
   "DatabaseError"}

C8_OneOutcome ==
  \A c \in Slots :
    LET f == calls[c]
    IN /\ f.sent <= 1
       /\ (f.pc = "done") <=> (f.result # None)
       /\ (f.op = "query" /\ f.pc = "done") =>
            \/ /\ f.result[1].kind = "Ok"
               /\ f.response # None
               /\ f.result[1].value = f.response[1].body.text
            \/ f.result[1].kind \in QueryErrorKinds

C8_NothingAfterOutcome ==
  \A c \in Slots :
    calls[c].result # None => calls'[c] \in {calls[c], IdleFrame}

\* C8: no call sends more than one request, a call has an outcome exactly
\* when it has ended, a query's outcome is the body text or one error kind,
\* and once a call has its outcome it does nothing more.
C8_NoRetries == []C8_OneOutcome /\ [][C8_NothingAfterOutcome]_vars

\* A query that lost its connection: one request sent, one error.
C8_Witness ==
  \E c \in Slots :
    /\ calls[c].op = "query" /\ calls[c].pc = "done" /\ calls[c].sent = 1
    /\ calls[c].result = Some(Err("ConnectionError", ""))

\* C9: ping sends GET {url}/ping with no headers and no parameters, and
\* every ping that ends hands the caller a result: the two header values or
\* a protocol error, never an abort.
C9_PingReturnsResult ==
  \A f \in PingFrames :
    /\ f.request # None =>
         f.request = Some([method |-> "GET", url |-> args.url \o "/ping",
                           headers |-> EmptyMap, query |-> EmptyMap, body |-> None])
    /\ f.pc = "done" => f.result[1].kind \in {"Ok", "ProtocolError"}

\* C10: construction ends either with a client whose token() is "Token "
\* followed by the token given, or, for a token that cannot be a header
\* value, with an error returned to the caller.
C10_ConstructorReturns ==
  client # "unconstructed" =>
    IF HeaderValueFromStr("Token " \o args.token) # None
      THEN client = "ready" /\ token(shared) = "Token " \o args.token
      ELSE client = "error"

====
